---- MODULE Spec2Model ----
(***************************************************************************)
(* A model of lib_tar.c (second revision, src/lib_tar.c lines 233-750):    *)
(* a read-only accessor for USTAR archives working on one file descriptor. *)
(*                                                                         *)
(* The archive is modelled at byte level.  A file is a sequence of         *)
(* 512-byte blocks; a block is a sequence of segments [off, bytes], every  *)
(* byte outside the segments being zero.  Strings are sequences of byte    *)
(* values (ASCII codes), without their terminating NUL.                    *)
(***************************************************************************)
EXTENDS Integers, Sequences, FiniteSets, TLC

VARIABLES
    desc,       \* ghost: the entries the archive was written from
    archive,    \* the bytes of the file behind tar_fd
    edit,       \* ghost: the single byte replaced in the file, or NoEdit
    pos,        \* the read cursor of tar_fd
    st,         \* "idle"; "ret": the last call returned; "hang": it never
                \* returns; "ub": it read a header past the end of the file
    op,         \* the last operation called
    path,       \* its path argument
    pos0,       \* the cursor when it was called
    ret,        \* its return value
    cap,        \* list: *no_entries on entry; read_file: *len on entry
    no_entries, \* list: *no_entries on return
    entries,    \* list: the caller's buffers after the call
    written,    \* ghost: the (index, string) pairs list passed to memcpy, in order
    offset,     \* read_file: its offset argument
    len,        \* read_file: *len on return (cap holds *len on entry)
    dest        \* read_file: the bytes the call wrote to dest, from dest[0] on

vars == <<desc, archive, edit, pos, st, op, path, pos0, ret, cap, no_entries,
          entries, written, offset, len, dest>>

(***************************************************************************)
(* Bounds of the model.                                                    *)
(***************************************************************************)
MaxEntries == 2     \* entries of an enumerated archive
MaxSpin == 1        \* short reads of check_end that see non-zero garbage
                    \* before one sees zeros
MaxSlots == 4       \* buffers in the caller's array entries
MaxListed == 3      \* entries of an enumerated archive that list is run on
MaxOffset == 3      \* largest offset given to read_file
MaxLen == 3         \* largest *len given to read_file
MaxBlocks == 3      \* blocks of a file that check_end is run on

(***************************************************************************)
(* lib_tar.h: the header layout and the tokens of the format.              *)
(***************************************************************************)
BLOCK == 512
OFF_NAME == 0
OFF_SIZE == 124
OFF_CHKSUM == 148
LEN_CHKSUM == 8
OFF_TYPEFLAG == 156
OFF_LINKNAME == 157
OFF_MAGIC == 257
OFF_VERSION == 263

TMAGIC == <<117, 115, 116, 97, 114>>      \* "ustar"
TMAGLEN == 6
TVERSION == <<48, 48>>                    \* "00"
TVERSLEN == 2
REGTYPE == 48                             \* '0'
AREGTYPE == 0                             \* '\0'
SYMTYPE == 50                             \* '2'
DIRTYPE == 53                             \* '5'
SPACE == 32                               \* ' '
SLASH == 47                               \* '/'

Min(x, y) == IF x < y THEN x ELSE y

(***************************************************************************)
(* The file as bytes.                                                      *)
(***************************************************************************)
FileLen(a) == BLOCK * Len(a)

ByteOf(blk, o) ==
    LET S == {k \in 1..Len(blk) :
                blk[k].off <= o /\ o < blk[k].off + Len(blk[k].bytes)}
    IN  IF S = {} THEN 0
        ELSE LET k == CHOOSE k \in S : TRUE IN blk[k].bytes[o - blk[k].off + 1]

\* The byte at absolute offset i of the file (i < FileLen(a)).
ByteAt(a, i) == ByteOf(a[(i \div BLOCK) + 1], i % BLOCK)

\* char is signed on the build's target: a byte 128..255 reads as -128..-1.
SChar(b) == IF b >= 128 THEN b - 256 ELSE b

RECURSIVE SegSum(_, _, _, _, _)
\* Sum of the signed bytes of segment s (of a block starting at base) that lie
\* in [lo, hi), from its i-th byte on.
SegSum(s, base, lo, hi, i) ==
    IF i > Len(s.bytes) THEN 0
    ELSE (IF lo <= base + s.off + i - 1 /\ base + s.off + i - 1 < hi
          THEN SChar(s.bytes[i]) ELSE 0)
         + SegSum(s, base, lo, hi, i + 1)

RECURSIVE BlockSum(_, _, _, _, _)
BlockSum(blk, base, lo, hi, k) ==
    IF k > Len(blk) THEN 0
    ELSE SegSum(blk[k], base, lo, hi, 1) + BlockSum(blk, base, lo, hi, k + 1)

RECURSIVE RangeSum(_, _, _, _)
\* Sum of the bytes at [lo, hi) of the file, each read as a char, block b on.
RangeSum(a, lo, hi, b) ==
    IF b > Len(a) \/ (b - 1) * BLOCK >= hi THEN 0
    ELSE BlockSum(a[b], (b - 1) * BLOCK, lo, hi, 1) + RangeSum(a, lo, hi, b + 1)

\* buf[i] after read(tar_fd, buf, 512) at cursor h.
buf(a, h, i) == ByteAt(a, h + i)

RECURSIVE cstr(_, _, _)
\* The C string that starts at buf[i].
cstr(a, h, i) ==
    IF i >= BLOCK \/ buf(a, h, i) = 0 THEN <<>>
    ELSE <<buf(a, h, i)>> \o cstr(a, h, i + 1)

\* strncmp(s1, s2, n) = 0, for C strings s1 and s2.
strncmp(s1, s2, n) ==
    IF SubSeq(s1 \o <<0>>, 1, Min(n, Len(s1) + 1))
         = SubSeq(s2 \o <<0>>, 1, Min(n, Len(s2) + 1))
    THEN 0 ELSE 1

strlen(s) == Len(s)

RECURSIVE skipws(_, _, _)
skipws(a, h, i) ==
    IF i < BLOCK /\ buf(a, h, i) \in {32, 9, 10, 11, 12, 13}
    THEN skipws(a, h, i + 1) ELSE i

RECURSIVE octal(_, _, _, _)
octal(a, h, i, acc) ==
    IF i < BLOCK /\ buf(a, h, i) \in 48..55
    THEN octal(a, h, i + 1, acc * 8 + (buf(a, h, i) - 48)) ELSE acc

\* TAR_INT(header->field) = strtol(field, NULL, 8) on the field at buf[i]:
\* white space, an optional sign, then octal digits up to the first other byte.
TAR_INT(a, h, i) ==
    LET j == skipws(a, h, i)
        c == IF j < BLOCK THEN buf(a, h, j) ELSE 0
        k == IF c \in {43, 45} THEN j + 1 ELSE j
    IN  (IF c = 45 THEN -1 ELSE 1) * octal(a, h, k, 0)

typeflag(a, h) == buf(a, h, OFF_TYPEFLAG)

(***************************************************************************)
(* check_end and next_header.                                              *)
(***************************************************************************)
\* The outcome of a read of check_end that returns fewer than 1024 bytes: the
\* rest of header_next_header is uninitialised.  The first u such reads of a
\* call see a non-zero sum, the next one sees zero; u = -1: none sees zero.
GarbageIsZero(u, k) == u >= 0 /\ k >= u

\* check_end(tar_fd) at cursor p, the k-th short read of the call being next.
\* [final, pos, short]
check_end(a, p, u, k) ==
    LET n == IF p >= FileLen(a) THEN 0 ELSE Min(2 * BLOCK, FileLen(a) - p)
        back == IF p + n - 2 * BLOCK >= 0 THEN p + n - 2 * BLOCK ELSE p + n
    IN  IF n = 2 * BLOCK
        THEN [final |-> IF RangeSum(a, p, p + n, (p \div BLOCK) + 1) = 0
                        THEN 1 ELSE 0,
              pos |-> back, short |-> 0]
        ELSE [final |-> IF GarbageIsZero(u, k) THEN 1 ELSE 0,
              pos |-> back, short |-> 1]

\* next_header(header) for the header read at h.
next_header(a, h) ==
    LET size == TAR_INT(a, h, OFF_SIZE)
        \* C division truncates towards zero and % takes the dividend's sign
        q == IF size >= 0 THEN size \div BLOCK ELSE -((-size) \div BLOCK)
        r == IF size >= 0 THEN size % BLOCK ELSE -((-size) % BLOCK)
    IN  (IF r # 0 THEN q + 1 ELSE q) * BLOCK

\* What a loop may run before the model calls it a hang: more iterations than
\* any returning walk makes (one per block, the spins, the slots of entries).
Fuel(a) == Len(a) + MaxSpin + MaxSlots + 2

(***************************************************************************)
(* check_archive.                                                          *)
(***************************************************************************)
\* The sum check_archive compares with the stored checksum, for the header
\* read at h: every buf[i] added as a char, a space for each i in 148..155.
checksum(a, h) ==
    RangeSum(a, h, h + OFF_CHKSUM, (h \div BLOCK) + 1)
    + LEN_CHKSUM * SPACE
    + RangeSum(a, h + OFF_CHKSUM + LEN_CHKSUM, h + BLOCK, (h \div BLOCK) + 1)

magic_ok(a, h) == strncmp(cstr(a, h, OFF_MAGIC), TMAGIC, TMAGLEN - 1) = 0

version_ok(a, h) == strncmp(cstr(a, h, OFF_VERSION), TVERSION, TVERSLEN) = 0

chksum_ok(a, h) == TAR_INT(a, h, OFF_CHKSUM) = checksum(a, h)

\* A call's outcome: it returned ret; it never returns; or it read a header
\* past the end of the file, and what it does next depends on what the stack
\* held in buf.  k: the short reads of check_end the call made.
Returned(r, p, k) == [st |-> "ret", ret |-> r, pos |-> p, k |-> k]
Hangs(p, k) == [st |-> "hang", ret |-> 0, pos |-> p, k |-> k]
ShortHeader(p, k) == [st |-> "ub", ret |-> 0, pos |-> p, k |-> k]

RECURSIVE check_archive_loop(_, _, _, _, _, _)
\* One iteration of the while loop of check_archive, the cursor at p.
check_archive_loop(a, p, count, u, k, fuel) ==
    IF fuel = 0 THEN Hangs(p, k)
    ELSE IF p + BLOCK > FileLen(a) THEN ShortHeader(p, k)
    ELSE IF ~magic_ok(a, p) THEN Returned(-1, p + BLOCK, k)
    ELSE IF ~version_ok(a, p) THEN Returned(-2, p + BLOCK, k)
    ELSE IF ~chksum_ok(a, p) THEN Returned(-3, p + BLOCK, k)
    ELSE LET e == check_end(a, p + BLOCK + next_header(a, p), u, k)
         IN  IF e.final = 1 THEN Returned(count + 1, e.pos, k + e.short)
             ELSE check_archive_loop(a, e.pos, count + 1, u, k + e.short, fuel - 1)

check_archive(a, p, u) == check_archive_loop(a, p, 0, u, 0, Fuel(a))

(***************************************************************************)
(* exists, is_dir, is_file, is_symlink.                                    *)
(***************************************************************************)
name_of(a, h) == cstr(a, h, OFF_NAME)
linkname_of(a, h) == cstr(a, h, OFF_LINKNAME)

\* strncmp(header->name, path, strlen(path)) == 0
name_matches(a, h, pth) == strncmp(name_of(a, h), pth, strlen(pth)) = 0

RECURSIVE exists_loop(_, _, _, _, _, _)
exists_loop(a, p, pth, u, k, fuel) ==
    IF fuel = 0 THEN Hangs(p, k)
    ELSE IF p + BLOCK > FileLen(a) THEN ShortHeader(p, k)
    ELSE IF name_matches(a, p, pth) THEN Returned(1, p + BLOCK, k)
    ELSE LET e == check_end(a, p + BLOCK + next_header(a, p), u, k)
         IN  IF e.final = 1 THEN Returned(0, e.pos, k + e.short)
             ELSE exists_loop(a, e.pos, pth, u, k + e.short, fuel - 1)

exists(a, p, pth, u) == exists_loop(a, p, pth, u, 0, Fuel(a))

RECURSIVE is_dir_loop(_, _, _, _, _, _)
is_dir_loop(a, p, pth, u, k, fuel) ==
    IF fuel = 0 THEN Hangs(p, k)
    ELSE IF p + BLOCK > FileLen(a) THEN ShortHeader(p, k)
    ELSE IF name_matches(a, p, pth)
         THEN Returned(IF typeflag(a, p) = DIRTYPE THEN 1 ELSE 0, p + BLOCK, k)
    ELSE LET e == check_end(a, p + BLOCK + next_header(a, p), u, k)
         IN  IF e.final = 1 THEN Returned(0, e.pos, k + e.short)
             ELSE is_dir_loop(a, e.pos, pth, u, k + e.short, fuel - 1)

is_dir(a, p, pth, u) == is_dir_loop(a, p, pth, u, 0, Fuel(a))

RECURSIVE is_file_loop(_, _, _, _, _, _)
is_file_loop(a, p, pth, u, k, fuel) ==
    IF fuel = 0 THEN Hangs(p, k)
    ELSE IF p + BLOCK > FileLen(a) THEN ShortHeader(p, k)
    ELSE IF name_matches(a, p, pth)
         THEN Returned(IF typeflag(a, p) = REGTYPE \/ typeflag(a, p) = AREGTYPE
                       THEN 1 ELSE 0, p + BLOCK, k)
    ELSE LET e == check_end(a, p + BLOCK + next_header(a, p), u, k)
         IN  IF e.final = 1 THEN Returned(0, e.pos, k + e.short)
             ELSE is_file_loop(a, e.pos, pth, u, k + e.short, fuel - 1)

is_file(a, p, pth, u) == is_file_loop(a, p, pth, u, 0, Fuel(a))

RECURSIVE is_symlink_loop(_, _, _, _, _, _)
is_symlink_loop(a, p, pth, u, k, fuel) ==
    IF fuel = 0 THEN Hangs(p, k)
    ELSE IF p + BLOCK > FileLen(a) THEN ShortHeader(p, k)
    ELSE IF name_matches(a, p, pth)
         THEN Returned(IF typeflag(a, p) = SYMTYPE THEN 1 ELSE 0, p + BLOCK, k)
    ELSE LET e == check_end(a, p + BLOCK + next_header(a, p), u, k)
         IN  IF e.final = 1 THEN Returned(0, e.pos, k + e.short)
             ELSE is_symlink_loop(a, e.pos, pth, u, k + e.short, fuel - 1)

is_symlink(a, p, pth, u) == is_symlink_loop(a, p, pth, u, 0, Fuel(a))

(***************************************************************************)
(* list.                                                                   *)
(***************************************************************************)
\* memcpy(entries[i], s, strlen(s)) on the buffer b: the first strlen(s)
\* bytes are replaced, no terminating NUL is written.
memcpy(b, s) == s \o SubSeq(b, Len(s) + 1, Len(b))

\* depth after the for loop of list: the index of the last '/' of s, 0 when
\* s has none.
last_slash(s) ==
    LET S == {i \in 0..(Len(s) - 1) : s[i + 1] = SLASH}
    IN  IF S = {} THEN 0 ELSE CHOOSE i \in S : \A j \in S : j <= i

\* The state of a call of list between two iterations: the caller's buffers,
\* the memcpy calls made, count and home.
ListOut(r, ents, log) ==
    [st |-> r.st, ret |-> r.ret, pos |-> r.pos, k |-> r.k,
     no_entries |-> r.ret, entries |-> ents, written |-> log]

RECURSIVE list_loop(_, _, _, _, _, _, _, _, _, _, _, _)

\* A nested call that would go on from the header after the link, its lseek
\* left out.
list_from_link(a, p, c, ents, log, u, k, hops) ==
    list_loop(a, p + BLOCK, linkname_of(a, p), c, ents, log, -1, 0, u, k,
              Fuel(a), hops)

\* return list(tar_fd, header->linkname, entries, no_entries) for the link
\* read at p: the nested call begins with lseek(tar_fd, 0, SEEK_SET), count
\* and home are its own, entries and no_entries are the caller's.
list_link(a, p, c, ents, log, u, k, hops) ==
    list_loop(a, 0, linkname_of(a, p), c, ents, log, -1, 0, u, k,
              Fuel(a), hops)

\* One iteration of the while loop of list, the cursor at p; c is *no_entries
\* (list writes it once, before it returns); hops: the calls of list that
\* this call may still nest.
list_loop(a, p, pth, c, ents, log, count, home, u, k, fuel, hops) ==
    IF fuel = 0 THEN ListOut(Hangs(p, k), ents, log)
    ELSE IF p + BLOCK > FileLen(a) THEN ListOut(ShortHeader(p, k), ents, log)
    ELSE
    LET sym == typeflag(a, p) = SYMTYPE
        \* strcat(name, "/") on the name of a symbolic link
        name == IF sym THEN name_of(a, p) \o <<SLASH>> ELSE name_of(a, p)
        match == strncmp(name, pth, strlen(pth)) = 0
        depth == last_slash(name)
        \* header->name[depth + 1] == '\0'
        ends == depth + 1 = Len(name)
        add == /\ match /\ count # -1
               /\ (depth > home => ends)
               /\ count < c
        ents2 == IF add
                 THEN [ents EXCEPT ![count + 1] = memcpy(ents[count + 1], name)]
                 ELSE ents
        log2 == IF add THEN Append(log, [i |-> count, s |-> name]) ELSE log
        count2 == IF match /\ count = -1 THEN 0
                  ELSE IF add THEN count + 1 ELSE count
        home2 == IF match /\ count = -1 THEN depth ELSE home
        e == check_end(a, p + BLOCK + next_header(a, p), u, k)
    IN  IF match /\ sym /\ count = -1
        THEN IF hops = 0 THEN ListOut(Hangs(p + BLOCK, k), ents, log)
             ELSE list_link(a, p, c, ents, log, u, k, hops - 1)
        ELSE IF e.final = 1
        THEN ListOut(Returned(IF count2 = -1 THEN 0 ELSE count2, e.pos,
                              k + e.short), ents2, log2)
        ELSE list_loop(a, e.pos, pth, c, ents2, log2, count2, home2,
                       u, k + e.short, fuel - 1, hops)

\* list(tar_fd, path, entries, no_entries) with *no_entries = c: the call
\* starts with lseek(tar_fd, 0, SEEK_SET), whatever the cursor was.  A chain
\* of nested calls longer than the file has blocks passes the same link twice
\* and never ends.
list(a, pth, c, ents, u) ==
    list_loop(a, 0, pth, c, ents, <<>>, -1, 0, u, 0, Fuel(a), Len(a))

(***************************************************************************)
(* read_symlink and read_file.                                             *)
(***************************************************************************)
\* strstr(s1, s2) != NULL, for C strings s1 and s2.
strstr(s1, s2) ==
    \E i \in 0..(Len(s1) - Len(s2)) : SubSeq(s1, i + 1, i + Len(s2)) = s2

\* The bytes read(tar_fd, dest, n) delivers with the cursor at p.
read(a, p, n) ==
    [i \in 1..Min(n, IF p >= FileLen(a) THEN 0 ELSE FileLen(a) - p)
        |-> ByteAt(a, p + i - 1)]

\* The outcome of a call of read_file or read_symlink: *len and the bytes
\* written to dest.
ReadOut(r, n, d) ==
    [st |-> r.st, ret |-> r.ret, pos |-> r.pos, k |-> r.k, len |-> n,
     dest |-> d]

\* The end of both functions, the header read at p being taken for a regular
\* file: the offset check, lseek, the clamp of *len (c on entry), read.
\* offset and *len are size_t and size is converted to size_t where they
\* meet: a negative size is then larger than any offset and any *len.
read_content(a, p, off, c, k) ==
    LET size == TAR_INT(a, p, OFF_SIZE)
        n == IF size >= 0 /\ size - off < c THEN size - off ELSE c
        got == read(a, p + BLOCK + off, n)
    IN  IF size >= 0 /\ off > size
        THEN ReadOut(Returned(-2, p + BLOCK, k), c, <<>>)
        ELSE ReadOut(Returned(size - off - n, p + BLOCK + off + Len(got), k),
                     n, got)

RECURSIVE read_symlink_loop(_, _, _, _, _, _, _, _)
\* One iteration of the while loop of read_symlink, the cursor at p.
read_symlink_loop(a, p, pth, off, c, u, k, fuel) ==
    IF fuel = 0 THEN ReadOut(Hangs(p, k), c, <<>>)
    ELSE IF p + BLOCK > FileLen(a) THEN ReadOut(ShortHeader(p, k), c, <<>>)
    ELSE IF strstr(name_of(a, p), pth)
    THEN IF \/ typeflag(a, p) = DIRTYPE
            \/ ~(typeflag(a, p) = REGTYPE \/ typeflag(a, p) = AREGTYPE)
         THEN ReadOut(Returned(-1, p + BLOCK, k), c, <<>>)
         ELSE IF typeflag(a, p) = SYMTYPE
         THEN read_symlink_loop(a, p + BLOCK, linkname_of(a, p), off, c, u, k,
                                Fuel(a))
         ELSE read_content(a, p, off, c, k)
    ELSE LET e == check_end(a, p + BLOCK + next_header(a, p), u, k)
         IN  IF e.final = 1
             THEN ReadOut(Returned(-1, e.pos, k + e.short), c, <<>>)
             ELSE read_symlink_loop(a, e.pos, pth, off, c, u, k + e.short,
                                    fuel - 1)

\* read_symlink(tar_fd, path, offset, dest, len) with the cursor at p and
\* *len = c.
read_symlink(a, p, pth, off, c, u, k) ==
    read_symlink_loop(a, p, pth, off, c, u, k, Fuel(a))

RECURSIVE read_file_loop(_, _, _, _, _, _, _, _)
\* One iteration of the while loop of read_file, the cursor at p.
read_file_loop(a, p, pth, off, c, u, k, fuel) ==
    IF fuel = 0 THEN ReadOut(Hangs(p, k), c, <<>>)
    ELSE IF p + BLOCK > FileLen(a) THEN ReadOut(ShortHeader(p, k), c, <<>>)
    ELSE IF name_matches(a, p, pth)
    THEN IF typeflag(a, p) = DIRTYPE
         THEN ReadOut(Returned(-1, p + BLOCK, k), c, <<>>)
         ELSE IF typeflag(a, p) = SYMTYPE
         \* the cursor stays behind the header of the link
         THEN read_symlink(a, p + BLOCK, linkname_of(a, p), off, c, u, k)
         ELSE IF ~(typeflag(a, p) = REGTYPE \/ typeflag(a, p) = AREGTYPE)
         THEN ReadOut(Returned(-1, p + BLOCK, k), c, <<>>)
         ELSE read_content(a, p, off, c, k)
    ELSE LET e == check_end(a, p + BLOCK + next_header(a, p), u, k)
         IN  IF e.final = 1
             THEN ReadOut(Returned(-1, e.pos, k + e.short), c, <<>>)
             ELSE read_file_loop(a, e.pos, pth, off, c, u, k + e.short,
                                 fuel - 1)

\* read_file(tar_fd, path, offset, dest, len) with the cursor at p and
\* *len = c.
read_file(a, p, pth, off, c, u) ==
    read_file_loop(a, p, pth, off, c, u, 0, Fuel(a))

(***************************************************************************)
(* The archives the model is run on: what a USTAR writer produces from a   *)
(* sequence of entries.  An entry is                                       *)
(*   [name, typeflag, size, linkname, magic, version, chk, data]           *)
(* chk is added to the checksum the writer stores (0: the right one), data *)
(* are the first bytes of the content (the rest of it is zero).            *)
(***************************************************************************)
RECURSIVE Octal(_, _)
\* n as w octal digits.
Octal(n, w) == IF w = 0 THEN <<>> ELSE Octal(n \div 8, w - 1) \o <<48 + (n % 8)>>

RECURSIVE SumBytes(_)
SumBytes(s) == IF s = <<>> THEN 0 ELSE Head(s) + SumBytes(Tail(s))

\* The checksum of the format: the unsigned sum of the 512 bytes, the
\* checksum field counted as eight spaces.
UStarSum(e) ==
    SumBytes(e.name) + SumBytes(Octal(e.size, 11)) + LEN_CHKSUM * SPACE
    + e.typeflag + SumBytes(e.linkname) + SumBytes(e.magic) + SumBytes(e.version)

\* The eight bytes of the checksum field: six octal digits, NUL, space.
ChksumField(e) == Octal(UStarSum(e) + e.chk, 6) \o <<0, SPACE>>

Seg(o, b) == [off |-> o, bytes |-> b]

HeaderBlock(e) ==
    << Seg(OFF_NAME, e.name),
       Seg(OFF_SIZE, Octal(e.size, 11)),
       Seg(OFF_CHKSUM, ChksumField(e)),
       Seg(OFF_TYPEFLAG, <<e.typeflag>>),
       Seg(OFF_LINKNAME, e.linkname),
       Seg(OFF_MAGIC, e.magic),
       Seg(OFF_VERSION, e.version) >>

ZeroBlock == <<>>

\* ceil(size / 512)
ContentBlocks(e) == (e.size + BLOCK - 1) \div BLOCK

Content(e) ==
    [i \in 1..ContentBlocks(e) |->
        IF i = 1 /\ e.data # <<>> THEN <<Seg(0, e.data)>> ELSE ZeroBlock]

RECURSIVE Serialize(_)
\* The entries, each a header and its content blocks, then the end marker.
Serialize(d) ==
    IF d = <<>> THEN <<ZeroBlock, ZeroBlock>>
    ELSE <<HeaderBlock(Head(d))>> \o Content(Head(d)) \o Serialize(Tail(d))

RECURSIVE HeaderPos(_, _)
\* The offset of the j-th header of the archive written from d.
HeaderPos(d, j) ==
    IF j = 1 THEN 0
    ELSE HeaderPos(d, j - 1) + BLOCK * (1 + ContentBlocks(d[j - 1]))

Entry(n, t, s, l, m, v, c, dt) ==
    [name |-> n, typeflag |-> t, size |-> s, linkname |-> l, magic |-> m,
     version |-> v, chk |-> c, data |-> dt]

GoodMagic == TMAGIC \o <<0>>              \* "ustar" and a NUL
GoodVersion == TVERSION

\* All sequences over S of length at most n.
RECURSIVE SeqsUpTo(_, _)
SeqsUpTo(S, n) ==
    IF n = 0 THEN {<<>>}
    ELSE LET T == SeqsUpTo(S, n - 1)
         IN  T \cup {Append(t, x) : t \in {t \in T : Len(t) = n - 1}, x \in S}

ValidEntry(e) == e.magic = GoodMagic /\ e.version = GoodVersion /\ e.chk = 0
ValidDesc(d) == \A j \in 1..Len(d) : ValidEntry(d[j])

NoEdit == [hdr |-> 0, k |-> 0, old |-> 0, new |-> 0]

Oracle == (-1)..MaxSpin

(***************************************************************************)
(* The state machine: a caller holding tar_fd calls the operations one     *)
(* after the other; the cursor of tar_fd is what one call leaves the next. *)
(***************************************************************************)
NoCall ==
    /\ st = "idle" /\ op = "none" /\ path = <<>> /\ pos0 = 0 /\ ret = 0
    /\ cap = 0 /\ no_entries = 0 /\ entries = <<>> /\ written = <<>>
    /\ offset = 0 /\ len = 0 /\ dest = <<>>

\* The caller calls when it holds no pending result.
CanCall == st = "idle"

\* The outcomes of the short reads matter only to a call that makes one.
Oracles(k) == IF k = 0 THEN {0} ELSE Oracle

\* The caller holds the outcome r of the call name(tar_fd, pth).
Lookup(name, r, pth) ==
    /\ st' = r.st /\ ret' = r.ret /\ pos' = r.pos
    /\ op' = name /\ path' = pth /\ pos0' = pos
    /\ UNCHANGED <<desc, archive, edit, cap, no_entries, entries, written,
                   offset, len, dest>>

CheckArchive ==
    /\ CanCall
    /\ \E u \in Oracles(check_archive(archive, pos, 0).k) :
         Lookup("check_archive", check_archive(archive, pos, u), <<>>)

\* The caller has used the result of the call that returned; the cursor stays
\* where the call left it.
Forget ==
    /\ st = "ret"
    /\ st' = "idle" /\ op' = "none" /\ path' = <<>> /\ pos0' = 0 /\ ret' = 0
    /\ cap' = 0 /\ no_entries' = 0 /\ entries' = <<>> /\ written' = <<>>
    /\ offset' = 0 /\ len' = 0 /\ dest' = <<>>
    /\ UNCHANGED <<desc, archive, edit, pos>>

\* The caller's lseek(tar_fd, 0, SEEK_SET) between two calls.
Rewind ==
    /\ CanCall /\ pos # 0
    /\ pos' = 0
    /\ UNCHANGED <<desc, archive, edit, st, op, path, pos0, ret, cap,
                   no_entries, entries, written, offset, len, dest>>

\* The file with the byte at offset o of block b replaced by v.
SetByte(a, b, o, v) ==
    LET blk == a[b]
        S == {k \in 1..Len(blk) :
                blk[k].off <= o /\ o < blk[k].off + Len(blk[k].bytes)}
    IN  IF S = {} THEN [a EXCEPT ![b] = Append(blk, Seg(o, <<v>>))]
        ELSE LET k == CHOOSE k \in S : TRUE
             IN  [a EXCEPT ![b][k].bytes[o - blk[k].off + 1] = v]

\* Byte values a replaced byte may take: NUL, space, '+', '0', '1', '4', '7',
\* '8', 'x'.
EditBytes == {0, 32, 43, 48, 49, 52, 55, 56, 120}

\* One byte of the checksum field of the j-th header of a valid archive is
\* replaced by another value, before any call.
CorruptChksum ==
    /\ st = "idle" /\ pos = 0 /\ edit = NoEdit /\ ValidDesc(desc)
    /\ \E j \in 1..Len(desc), k \in 0..(LEN_CHKSUM - 1), v \in EditBytes :
         LET h == HeaderPos(desc, j)
             old == ByteAt(archive, h + OFF_CHKSUM + k)
         IN  /\ v # old
             /\ archive' = SetByte(archive, (h \div BLOCK) + 1, OFF_CHKSUM + k, v)
             /\ edit' = [hdr |-> j, k |-> k, old |-> old, new |-> v]
    /\ UNCHANGED <<desc, pos, st, op, path, pos0, ret, cap, no_entries,
                   entries, written, offset, len, dest>>

(***************************************************************************)
(* SpecCheck: check_archive on files that may fail its checks.             *)
(***************************************************************************)
Magics == {GoodMagic,
           TMAGIC \o <<SPACE>>,                  \* "ustar "
           <<117, 115, 116, 97, 120, 0>>}        \* "ustax" and a NUL
Versions == {GoodVersion, <<SPACE, 0>>}          \* "00", " " and a NUL

CheckEntries ==
    {Entry(<<97>>, REGTYPE, 0, <<>>, m, v, c, <<>>) :
        m \in Magics, v \in Versions, c \in {0, 1}}
    \cup
    {Entry(<<98>>, REGTYPE, 2, <<>>, m, v, c, <<120, 121>>) :
        m \in Magics, v \in Versions, c \in {0, 1}}

CheckDescs == SeqsUpTo(CheckEntries, MaxEntries)

InitCheck ==
    /\ desc \in CheckDescs
    /\ archive = Serialize(desc)
    /\ edit = NoEdit
    /\ pos = 0
    /\ NoCall

NextCheck == CheckArchive \/ Forget \/ Rewind \/ CorruptChksum

SpecCheck == InitCheck /\ [][NextCheck]_vars

(***************************************************************************)
(* The lookups and list, called on valid archives.                         *)
(***************************************************************************)
Dir(n) == Entry(n, DIRTYPE, 0, <<>>, GoodMagic, GoodVersion, 0, <<>>)
File(n, s, dt) == Entry(n, REGTYPE, s, <<>>, GoodMagic, GoodVersion, 0, dt)
Link(n, l) == Entry(n, SYMTYPE, 0, l, GoodMagic, GoodVersion, 0, <<>>)

\* Names: 'a' 97, 'b' 98, 'c' 99, 'd' 100, 'e' 101, 'l' 108, 'x' 120, '/' 47.
P_a == <<97>>
P_ab == <<97, 98>>
P_l == <<108>>
P_x == <<120>>
P_d == <<100, 47>>
P_da == <<100, 47, 97>>
P_db == <<100, 47, 98>>
P_dc == <<100, 47, 99, 47>>
P_dcd == <<100, 47, 99, 47, 100>>
P_dcx == <<100, 47, 99, 47, 120, 47>>
P_de == <<100, 47, 101, 47>>

LookupPaths == {<<>>, P_a, P_ab, P_d, P_l}
ListPaths == {P_d, P_dc, P_da, P_l, P_x}

\* What the caller's buffers hold before a call of list: zeros, or a string
\* left by an earlier use ("zzzzzzz").
Fills == {<<>>, <<122, 122, 122, 122, 122, 122, 122>>}

Exists ==
    /\ CanCall
    /\ \E pth \in LookupPaths :
         \E u \in Oracles(exists(archive, pos, pth, 0).k) :
            Lookup("exists", exists(archive, pos, pth, u), pth)

IsDir ==
    /\ CanCall
    /\ \E pth \in LookupPaths :
         \E u \in Oracles(is_dir(archive, pos, pth, 0).k) :
            Lookup("is_dir", is_dir(archive, pos, pth, u), pth)

IsFile ==
    /\ CanCall
    /\ \E pth \in LookupPaths :
         \E u \in Oracles(is_file(archive, pos, pth, 0).k) :
            Lookup("is_file", is_file(archive, pos, pth, u), pth)

IsSymlink ==
    /\ CanCall
    /\ \E pth \in LookupPaths :
         \E u \in Oracles(is_symlink(archive, pos, pth, 0).k) :
            Lookup("is_symlink", is_symlink(archive, pos, pth, u), pth)

\* *no_entries before the call: no room, room for one entry, every slot.
Capacities == {0, 1, MaxSlots}

\* The caller's array: MaxSlots buffers, each holding fill.
Buffers(fill) == [i \in 1..MaxSlots |-> fill]

\* The caller holds the outcome r of list(tar_fd, pth, entries, no_entries)
\* called with *no_entries = c; *no_entries is written by the call that returns.
Listed(r, pth, c) ==
    /\ st' = r.st /\ ret' = r.ret /\ pos' = r.pos
    /\ op' = "list" /\ path' = pth /\ pos0' = pos
    /\ cap' = c
    /\ no_entries' = IF r.st = "ret" THEN r.no_entries ELSE c
    /\ entries' = r.entries /\ written' = r.written
    /\ UNCHANGED <<desc, archive, edit, offset, len, dest>>

List ==
    /\ CanCall
    /\ \E pth \in ListPaths, c \in Capacities, fill \in Fills :
         \E u \in Oracles(list(archive, pth, c, Buffers(fill), 0).k) :
            Listed(list(archive, pth, c, Buffers(fill), u), pth, c)

LookupPool == {File(P_a, 0, <<>>), File(P_ab, 2, <<120, 121>>), Dir(P_d),
               Link(P_l, P_a)}

LookupDescs == SeqsUpTo(LookupPool, MaxEntries)

InitLookup ==
    /\ desc \in LookupDescs
    /\ archive = Serialize(desc)
    /\ edit = NoEdit
    /\ pos = 0
    /\ NoCall

NextLookup ==
    Exists \/ IsDir \/ IsFile \/ IsSymlink \/ CheckArchive \/ List
    \/ Forget \/ Rewind

SpecLookup == InitLookup /\ [][NextLookup]_vars

\* The example of the documentation of list: dir/ holding a, b, c/ (holding
\* d) and e/.
DocExample ==
    <<Dir(P_d), File(P_da, 2, <<120, 121>>), File(P_db, 0, <<>>), Dir(P_dc),
      File(P_dcd, 0, <<>>), Dir(P_de)>>

\* A directory nested two levels below d/.
DeepExample == <<Dir(P_d), Dir(P_dc), Dir(P_dcx), File(P_da, 0, <<>>)>>

ListPool == {Dir(P_d), File(P_da, 2, <<120, 121>>), Dir(P_dc),
             Link(P_l, P_d)}

ListDescs == SeqsUpTo(ListPool, MaxListed) \cup {DocExample, DeepExample}

InitList ==
    /\ desc \in ListDescs
    /\ archive = Serialize(desc)
    /\ edit = NoEdit
    /\ pos = 0
    /\ NoCall

NextList == List \/ Forget \/ Rewind

SpecList == InitList /\ [][NextList]_vars

(***************************************************************************)
(* Claims on check_archive.                                                *)
(***************************************************************************)
\* check_archive was called with the cursor at offset 0 and returned.
CheckedFromStart == op = "check_archive" /\ st = "ret" /\ pos0 = 0

\* C1: for every valid archive, check_archive called with the cursor at
\* offset 0 returns the number of headers stored before the end marker (0
\* for the archive that holds only the end marker).
C1_CountsHeaders ==
    (CheckedFromStart /\ edit = NoEdit /\ ValidDesc(desc)) => ret = Len(desc)

\* The checks of the format, in their order of precedence: the error code of
\* an entry that fails one, 0 for an entry that fails none.
ErrorCode(e) ==
    IF e.magic # GoodMagic THEN -1
    ELSE IF e.version # GoodVersion THEN -2
    ELSE IF e.chk # 0 THEN -3
    ELSE 0

Offending(d) == {j \in 1..Len(d) : ErrorCode(d[j]) # 0}

FirstOffending(d) == CHOOSE j \in Offending(d) : \A i \in Offending(d) : j <= i

\* C2: check_archive returns the error code of the first header in archive
\* order that fails a check, and for that header the code of the first
\* failing check in the order magic (-1), version (-2), checksum (-3).
C2_FirstFailureWins ==
    (CheckedFromStart /\ edit = NoEdit /\ Offending(desc) # {})
        => ret = ErrorCode(desc[FirstOffending(desc)])

\* C3: in a valid archive, replacing any one byte of the checksum field of a
\* header by a different value makes check_archive return -3.
C3_AnyChksumByteDetected ==
    (CheckedFromStart /\ edit # NoEdit) => ret = -3

\* C4: a first header whose six magic bytes are not "ustar" and a NUL makes
\* check_archive return -1; one with that magic whose version is not "00"
\* makes it return -2.
C4_MagicAndVersionExact ==
    (CheckedFromStart /\ edit = NoEdit /\ Len(desc) >= 1)
        => /\ desc[1].magic # GoodMagic => ret = -1
           /\ (desc[1].magic = GoodMagic /\ desc[1].version # GoodVersion)
                => ret = -2

(***************************************************************************)
(* What the archive holds, read from the entries it was written from.      *)
(***************************************************************************)
IsPrefix(p, n) == Len(p) <= Len(n) /\ SubSeq(n, 1, Len(p)) = p

\* The first entry whose name has pth as a prefix; 0: none.
FirstMatch(d, pth) ==
    LET S == {j \in 1..Len(d) : IsPrefix(pth, d[j].name)}
    IN  IF S = {} THEN 0 ELSE CHOOSE j \in S : \A i \in S : j <= i

StoredDir(d, pth) ==
    \E j \in 1..Len(d) : d[j].typeflag = DIRTYPE /\ d[j].name = pth

\* n is one path segment below dir: a file dir/x or a directory dir/x/.
IsChild(dir, n) ==
    /\ IsPrefix(dir, n) /\ Len(n) > Len(dir)
    /\ \A i \in (Len(dir) + 1)..(Len(n) - 1) : n[i] # SLASH

Names(d) == [j \in 1..Len(d) |-> d[j].name]

Children(d, dir) == SelectSeq(Names(d), LAMBDA n : IsChild(dir, n))

WrittenNames == [i \in 1..Len(written) |-> written[i].s]

(***************************************************************************)
(* Claims on the lookups.                                                  *)
(***************************************************************************)
LookupOps == {"exists", "is_dir", "is_file", "is_symlink"}

\* The outcome of the last lookup, had the cursor been at offset 0.
FromStart ==
    CASE op = "exists" -> exists(archive, 0, path, 0)
      [] op = "is_dir" -> is_dir(archive, 0, path, 0)
      [] op = "is_file" -> is_file(archive, 0, path, 0)
      [] op = "is_symlink" -> is_symlink(archive, 0, path, 0)

\* C5: a lookup called with the cursor where earlier calls left it returns
\* what it returns with the cursor at offset 0.
C5_LookupFromAnyCursor ==
    (op \in LookupOps /\ st = "ret" /\ FromStart.st = "ret")
        => ret = FromStart.ret

\* What is_dir, is_file, is_symlink answer for a header of typeflag t.
TypeAnswer(o, t) ==
    CASE o = "is_dir" -> IF t = DIRTYPE THEN 1 ELSE 0
      [] o = "is_file" -> IF t \in {REGTYPE, AREGTYPE} THEN 1 ELSE 0
      [] o = "is_symlink" -> IF t = SYMTYPE THEN 1 ELSE 0

\* C6: called with the cursor at offset 0, is_dir, is_file and is_symlink
\* return, and answer for the first entry whose name has the path as a
\* prefix, by its typeflag alone; 0 when no entry matches.
C6_FirstMatchTypeflag ==
    (op \in {"is_dir", "is_file", "is_symlink"} /\ pos0 = 0)
        => /\ st = "ret"
           /\ ret = IF FirstMatch(desc, path) = 0 THEN 0
                    ELSE TypeAnswer(op, desc[FirstMatch(desc, path)].typeflag)

(***************************************************************************)
(* Claims on list.                                                         *)
(***************************************************************************)
Listed0 == op = "list" /\ st = "ret"

\* C7: list on the path of a stored directory, with room for all its
\* children, writes the names of its immediate children, all of them and
\* nothing else, in the order of the archive.
C7_ListsExactlyChildren ==
    (Listed0 /\ StoredDir(desc, path) /\ Len(Children(desc, path)) <= cap)
        => WrittenNames = Children(desc, path)

\* The path is the name of a stored directory, or of a link to one.
NamesDir(d, pth) ==
    \/ StoredDir(d, pth)
    \/ \E j \in 1..Len(d) : /\ d[j].typeflag = SYMTYPE /\ d[j].name = pth
                           /\ StoredDir(d, d[j].linkname)

\* The path is the name of a stored regular file and of nothing else.
NamesFile(d, pth) ==
    /\ \E j \in 1..Len(d) : d[j].name = pth
    /\ \A j \in 1..Len(d) : IsPrefix(pth, d[j].name)
            => d[j].name = pth /\ d[j].typeflag = REGTYPE

\* C8: list returns 0 when no entry matches the path or the path names a
\* regular file, and a value other than 0 when the path names a directory,
\* with or without children, whatever the capacity.
C8_ZeroIffNoDirectory ==
    Listed0 =>
        /\ FirstMatch(desc, path) = 0 => ret = 0
        /\ NamesFile(desc, path) => ret = 0
        /\ NamesDir(desc, path) => ret # 0

\* C9: list writes no entries[i] with i >= c, leaves in *no_entries the
\* number of entries it wrote, at most c, and on the path of a stored
\* directory these are the first min(c, found) children in archive order.
C9_CapacityRespected ==
    Listed0 =>
        /\ \A i \in 1..Len(written) : written[i].i < cap
        /\ no_entries <= cap
        /\ no_entries = Len(written)
        /\ StoredDir(desc, path)
            => WrittenNames = SubSeq(Children(desc, path), 1,
                                     Min(cap, Len(Children(desc, path))))

\* The path leads to a symbolic link whose linkname is the name of a stored
\* directory.
LinkToDir(d, pth) ==
    /\ FirstMatch(d, pth) # 0
    /\ d[FirstMatch(d, pth)].typeflag = SYMTYPE
    /\ StoredDir(d, d[FirstMatch(d, pth)].linkname)

LinkTarget(d, pth) == d[FirstMatch(d, pth)].linkname

\* list(D) called with the capacity of the last call.
Direct(D) == list(archive, D, cap, Buffers(<<>>), 0)

\* C10: list on a path that leads to a link to the directory D returns what
\* list on D returns and writes the same entries to the same slots, with the
\* link stored before D or after it.
C10_LinkListsTarget ==
    (Listed0 /\ LinkToDir(desc, path))
        => /\ Direct(LinkTarget(desc, path)).st = "ret"
           /\ ret = Direct(LinkTarget(desc, path)).ret
           /\ no_entries = Direct(LinkTarget(desc, path)).no_entries
           /\ written = Direct(LinkTarget(desc, path)).written

\* list was called on a link stored after the directory it points to, and
\* wrote entries.
C10_Witness ==
    /\ Listed0 /\ LinkToDir(desc, path) /\ ret > 0 /\ Len(written) > 0
    /\ \E j \in 1..Len(desc) :
         /\ desc[j].typeflag = DIRTYPE
         /\ desc[j].name = LinkTarget(desc, path)
         /\ j < FirstMatch(desc, path)

(***************************************************************************)
(* read_file, called on valid archives.                                    *)
(***************************************************************************)
\* Names: 'm' 109, "ba".
P_m == <<109>>
P_ba == <<98, 97>>

ReadPaths == {P_a, P_l, P_m, P_d, P_x}

\* The caller holds the outcome r of read_file(tar_fd, pth, off, dest, len)
\* called with *len = c.
Read(r, pth, off, c) ==
    /\ st' = r.st /\ ret' = r.ret /\ pos' = r.pos
    /\ op' = "read_file" /\ path' = pth /\ pos0' = pos
    /\ offset' = off /\ cap' = c /\ len' = r.len /\ dest' = r.dest
    /\ UNCHANGED <<desc, archive, edit, no_entries, entries, written>>

ReadFile ==
    /\ CanCall
    /\ \E pth \in ReadPaths, off \in 0..MaxOffset, c \in 0..MaxLen :
         \E u \in Oracles(read_file(archive, pos, pth, off, c, 0).k) :
            Read(read_file(archive, pos, pth, off, c, u), pth, off, c)

\* A link to a link to a file; a link to the file a stored behind a file
\* whose name holds "a".
ChainExample ==
    <<Link(P_m, P_l), Link(P_l, P_a), File(P_a, 2, <<120, 121>>)>>

SubstringExample ==
    <<Link(P_l, P_a), File(P_ba, 2, <<112, 113>>), File(P_a, 2, <<120, 121>>)>>

ReadPool == {File(P_a, 2, <<120, 121>>), Link(P_l, P_a), Link(P_m, P_l),
             Dir(P_d)}

ReadDescs ==
    SeqsUpTo(ReadPool, MaxEntries) \cup {ChainExample, SubstringExample}

InitRead ==
    /\ desc \in ReadDescs
    /\ archive = Serialize(desc)
    /\ edit = NoEdit
    /\ pos = 0
    /\ NoCall

NextRead == ReadFile \/ Forget \/ Rewind

SpecRead == InitRead /\ [][NextRead]_vars

(***************************************************************************)
(* Claims on read_file.                                                    *)
(***************************************************************************)
RECURSIVE Resolve(_, _, _)
\* The entry the path leads to, links followed (at most hops of them): the
\* first entry whose name has the path as a prefix, or what its linkname
\* leads to when it is a link; 0: none.
Resolve(d, pth, hops) ==
    LET j == FirstMatch(d, pth)
    IN  IF j = 0 THEN 0
        ELSE IF d[j].typeflag # SYMTYPE THEN j
        ELSE IF hops = 0 THEN 0
        ELSE Resolve(d, d[j].linkname, hops - 1)

RECURSIVE Links(_, _, _)
\* The links followed on the way.
Links(d, pth, hops) ==
    LET j == FirstMatch(d, pth)
    IN  IF j = 0 \/ hops = 0 THEN 0
        ELSE IF d[j].typeflag # SYMTYPE THEN 0
        ELSE 1 + Links(d, d[j].linkname, hops - 1)

Final(d, pth) == Resolve(d, pth, Len(d))

IsRegular(e) == e.typeflag \in {REGTYPE, AREGTYPE}

ToRegular(d, pth) == Final(d, pth) # 0 /\ IsRegular(d[Final(d, pth)])

\* The content of a file entry.
FileBytes(e) == [i \in 1..e.size |-> IF i <= Len(e.data) THEN e.data[i] ELSE 0]

ReadFromStart == op = "read_file" /\ st = "ret" /\ pos0 = 0

\* C11: read_file called with the cursor at offset 0 returns -1 exactly when
\* the path leads to no entry or, links followed, to an entry that is not a
\* regular file, and then it writes nothing to dest.
C11_MinusOneIffNotAFile ==
    ReadFromStart =>
        /\ ret = -1 <=> ~ToRegular(desc, path)
        /\ ret = -1 => dest = <<>>

\* C12: for a path leading to a regular file of size s, read_file returns -2
\* exactly when offset > s; offset = s returns 0 with *len = 0; offset = s + 1
\* returns -2 with dest untouched.
C12_OffsetBoundary ==
    (ReadFromStart /\ ToRegular(desc, path)) =>
        LET s == desc[Final(desc, path)].size
        IN  /\ ret = -2 <=> offset > s
            /\ offset = s => ret = 0 /\ len = 0
            /\ offset = s + 1 => ret = -2 /\ dest = <<>>

\* C13: for a path leading to a regular file of size s, an offset <= s and
\* *len = c, read_file writes the bytes [offset, offset + n) of the file with
\* n = min(c, s - offset), sets *len to n and returns s - offset - n.
C13_ReadsTheBytes ==
    (ReadFromStart /\ ToRegular(desc, path)
     /\ offset <= desc[Final(desc, path)].size) =>
        LET f == desc[Final(desc, path)]
            n == Min(cap, f.size - offset)
        IN  /\ dest = SubSeq(FileBytes(f), offset + 1, offset + n)
            /\ len = n
            /\ Len(dest) <= cap
            /\ ret = f.size - offset - n

\* The path is the name of a stored regular file and nothing stored before
\* it has the path as a prefix.
DirectFile(d, pth) ==
    /\ FirstMatch(d, pth) # 0
    /\ d[FirstMatch(d, pth)].name = pth
    /\ IsRegular(d[FirstMatch(d, pth)])

\* C14: a second read_file on the same file, called where a first
\* read_file(path, 0, ..) that delivered the first offset bytes of it left the
\* cursor, with room for the rest, delivers the rest of the file: the two
\* buffers together are the file.
C14_ResumedRead ==
    (op = "read_file" /\ st # "idle" /\ DirectFile(desc, path)
     /\ 0 < offset /\ offset < desc[FirstMatch(desc, path)].size
     /\ cap >= desc[FirstMatch(desc, path)].size - offset
     /\ pos0 = HeaderPos(desc, FirstMatch(desc, path)) + BLOCK + offset) =>
        LET f == desc[FirstMatch(desc, path)]
        IN  /\ st = "ret" /\ ret = 0
            /\ SubSeq(FileBytes(f), 1, offset) \o dest = FileBytes(f)

\* What read_file is to deliver for the file entry f.
Expected(f, off, c) ==
    IF off > f.size THEN [ret |-> -2, len |-> c, dest |-> <<>>]
    ELSE [ret |-> f.size - off - Min(c, f.size - off),
          len |-> Min(c, f.size - off),
          dest |-> SubSeq(FileBytes(f), off + 1, off + Min(c, f.size - off))]

\* C15: read_file on a path that leads through two or more links to a
\* regular file delivers that file.
C15_FollowsTheChain ==
    (ReadFromStart /\ Links(desc, path, Len(desc)) >= 2
     /\ ToRegular(desc, path)) =>
        [ret |-> ret, len |-> len, dest |-> dest]
            = Expected(desc[Final(desc, path)], offset, cap)

\* The path leads to a link whose linkname is the name of a stored regular
\* file.
LinkToFile(d, pth) ==
    /\ FirstMatch(d, pth) # 0
    /\ d[FirstMatch(d, pth)].typeflag = SYMTYPE
    /\ \E j \in 1..Len(d) :
         d[j].name = d[FirstMatch(d, pth)].linkname /\ IsRegular(d[j])

\* read_file(F) called with the arguments of the last call, the cursor at 0.
DirectRead(F) == read_file(archive, 0, F, offset, cap, 0)

\* C17: read_file on a link to the regular file F returns what read_file on
\* F returns, the same *len and the same bytes, with F stored before the link
\* or after it.
C17_LinkReadsTarget ==
    (ReadFromStart /\ LinkToFile(desc, path)) =>
        /\ ret = DirectRead(LinkTarget(desc, path)).ret
        /\ len = DirectRead(LinkTarget(desc, path)).len
        /\ dest = DirectRead(LinkTarget(desc, path)).dest

(***************************************************************************)
(* Archives with a link to itself and with links in a cycle.                *)
(***************************************************************************)
SelfLink == Link(P_l, P_l)

\* l -> m -> l
Cycle == <<Link(P_l, P_m), Link(P_m, P_l)>>

TermDescs ==
    {<<SelfLink>>, Cycle, <<Link(P_m, P_l), Link(P_l, P_m)>>,
     <<File(P_a, 2, <<120, 121>>), SelfLink>>,
     <<SelfLink, File(P_a, 2, <<120, 121>>)>>,
     Cycle \o <<File(P_a, 2, <<120, 121>>)>>}

InitTerm ==
    /\ desc \in TermDescs
    /\ archive = Serialize(desc)
    /\ edit = NoEdit
    /\ pos = 0
    /\ NoCall

\* The operations that meet the links: list and read_file follow them,
\* is_symlink and check_archive read their headers.
NextTerm ==
    CheckArchive \/ IsSymlink \/ List \/ ReadFile \/ Forget \/ Rewind

SpecTerm == InitTerm /\ [][NextTerm]_vars

\* C16: every operation called with the cursor at offset 0 on an archive
\* that ends with an end marker returns, also when the archive holds a link
\* to itself or links in a cycle.
C16_EveryCallReturns ==
    (st # "idle" /\ pos0 = 0) => st = "ret"

(***************************************************************************)
(* check_end, called on files of any content with the cursor on any block. *)
(***************************************************************************)
\* The caller holds the outcome e of check_end(tar_fd).
Ended(e) ==
    /\ st' = "ret" /\ ret' = e.final /\ pos' = e.pos
    /\ op' = "check_end" /\ path' = <<>> /\ pos0' = pos
    /\ UNCHANGED <<desc, archive, edit, cap, no_entries, entries, written,
                   offset, len, dest>>

CheckEnd ==
    /\ CanCall
    /\ \E u \in Oracles(check_end(archive, pos, 0, 0).short) :
         Ended(check_end(archive, pos, u, 0))

\* Blocks: zeros; one byte 0x01; one byte 0xFF; the bytes 0x01 0xFF; 'a'.
EndBlocks ==
    {ZeroBlock, <<Seg(0, <<1>>)>>, <<Seg(0, <<255>>)>>, <<Seg(0, <<1, 255>>)>>,
     <<Seg(0, <<97>>)>>}

InitEnd ==
    /\ archive \in SeqsUpTo(EndBlocks, MaxBlocks)
    /\ desc = <<>>
    /\ edit = NoEdit
    /\ pos \in {BLOCK * i : i \in 0..Len(archive)}
    /\ NoCall

NextEnd == CheckEnd \/ Forget \/ Rewind

SpecEnd == InitEnd /\ [][NextEnd]_vars

\* The two blocks at p hold zeros only.
AllZero(a, p) ==
    \A b \in {(p \div BLOCK) + 1, (p \div BLOCK) + 2} :
        \A k \in 1..Len(a[b]) :
            \A i \in 1..Len(a[b][k].bytes) : a[b][k].bytes[i] = 0

\* The 1024 bytes at the cursor are in the file.
FullRead == pos0 + 2 * BLOCK <= FileLen(archive)

\* C18: check_end returns 1 exactly when the 1024 bytes at the cursor are
\* all zero, also when non-zero bytes cancel in a sum of signed chars.
C18_OneIffAllZero ==
    (op = "check_end" /\ st = "ret" /\ FullRead) =>
        (ret = 1 <=> AllZero(archive, pos0))

\* C19: check_end leaves the cursor where it was, also when fewer than 1024
\* bytes are left in the file.
C19_CursorRestored ==
    (op = "check_end" /\ st = "ret") => pos = pos0

(***************************************************************************)
(* check_archive, called on valid archives whose headers hold bytes of     *)
(* 128 and more.                                                           *)
(***************************************************************************)
\* Names: U+00E9 in UTF-8; 'a' and the byte 0xC8.
P_eacute == <<195, 169>>
P_a200 == <<97, 200>>

SumPool == {File(P_a, 0, <<>>), File(P_ab, 2, <<120, 121>>),
            File(P_eacute, 0, <<>>), File(P_a200, 2, <<120, 121>>),
            Link(P_l, P_eacute)}

SumDescs == SeqsUpTo(SumPool, MaxEntries) \ {<<>>}

InitSum ==
    /\ desc \in SumDescs
    /\ archive = Serialize(desc)
    /\ edit = NoEdit
    /\ pos = 0
    /\ NoCall

NextSum == CheckArchive \/ Forget \/ Rewind

SpecSum == InitSum /\ [][NextSum]_vars

\* C20: the sum check_archive compares with the stored checksum is the sum
\* of the 512 bytes of the header as unsigned bytes, the checksum field read
\* as spaces: check_archive never answers -3 for an archive whose headers
\* store that sum.
C20_UnsignedSum ==
    /\ \A j \in 1..Len(desc) :
         checksum(archive, HeaderPos(desc, j)) = UStarSum(desc[j])
    /\ (CheckedFromStart /\ ValidDesc(desc)) => ret # -3
====
